---- MODULE Spec2Model ----
(***************************************************************************)
(* Model of the Cacheables library (policy variant, src/unnamed/part_003): *)
(* the registry Cacheables (#cacheables, enabled, delete, clear, keys,     *)
(* isCached, cacheable) and the per-key entry Cacheable (hits, #lastFetch, *)
(* #initialized, #promise, #value, touch and its policy handlers).         *)
(*                                                                         *)
(* JavaScript runs the synchronous part of a cacheable call to its first   *)
(* await without interleaving, so a call is one action.  When the promise  *)
(* returned by a fetch function settles, the continuation of #fetch and    *)
(* the continuations of the callers that awaited the same promise in       *)
(* #fetchNonConcurrent run as consecutive reaction jobs (#fetch's first,   *)
(* it was registered first), so a settlement is one action.                *)
(*                                                                         *)
(* The n-th cacheable call has id n.  The fetch function passed to call n  *)
(* resolves to the value n or rejects with the error n, so every value and *)
(* error names the call whose fetch function produced it.  The entry that  *)
(* call n creates has id n: a deleted entry object lives on while a fetch  *)
(* started on it is pending.                                               *)
(***************************************************************************)
EXTENDS Integers, FiniteSets, Sequences

\* Bounds of the model.
MaxCalls == 3
MaxTime == 3
MaxAge == 1
MaxParts == 3

Keys == {"a", "b"}
Ids == 1..MaxCalls
NoMaxAge == -1
Undefined == 0
MaxAges == 1..MaxAge
\* CacheableOptions: the options a call can pass (maxAge is optional for
\* stale-while-revalidate; TypeScript requires it for max-age, JavaScript does not).
CacheableOptions ==
    [cachePolicy : {"none", "cache-only", "network-only", "network-only-non-concurrent"},
     maxAge : {NoMaxAge}]
    \cup [cachePolicy : {"max-age", "stale-while-revalidate"},
          maxAge : MaxAges \cup {NoMaxAge}]

VARIABLES
    enabled,      \* Cacheables.enabled
    now,          \* Date.now()
    cacheables,   \* Cacheables.#cacheables: key -> entry id, 0 when absent
    hits,         \* Cacheable.hits, per entry
    lastFetch,    \* Cacheable.#lastFetch, per entry
    initialized,  \* Cacheable.#initialized, per entry
    promise,      \* Cacheable.#promise, per entry: the call whose fetch it holds, 0 when undefined
    value,        \* Cacheable.#value, per entry: Undefined or a fetched value
    nCalls,       \* number of cacheable calls issued so far
    calls,        \* per call: its arguments, what touch did, what the entry looked like
    fetchState,   \* per call: state of the promise its fetch function returned
    status,       \* per call: state of the promise cacheable returned
    result,       \* per call: the value or error cacheable's promise settled with
    lastResolved, \* per entry: the fetch that resolved most recently (history)
    lastEvent,    \* per entry: the last call or settlement on it (history)
    called,       \* keys called with caching enabled since their last delete or clear (history)
    cleared,      \* clear() ran and no call with caching enabled was made since (history)
    lastFetchBefore, \* per entry: #lastFetch before the latest fetch started on it (history)
    lastCall,     \* the time and the maxAge option of the latest cacheable call (history)
    keyArgs,      \* the arguments of a call of Cacheables.key
    keyResult,    \* what that call returned, NotCalled before it was made
    registry,     \* src/index.ts Cacheables.cacheables: key -> Cacheable object, 0 when absent
    objects,      \* src/index.ts Cacheable objects: lastFetch, value, hits, misses
    nTouches,     \* src/index.ts: number of cacheable calls issued so far
    touches,      \* src/index.ts: per cacheable call, what it did and how it stands
    asked,        \* src/index.ts: the last isCached call and its answer
    orphaned      \* src/index.ts: the pending calls whose key was deleted or cleared since they were issued (history)

vars == <<enabled, now, cacheables, hits, lastFetch, initialized, promise, value,
          nCalls, calls, fetchState, status, result, lastResolved, lastEvent, called,
          cleared, lastFetchBefore, lastCall, keyArgs, keyResult,
          registry, objects, nTouches, touches, asked, orphaned>>

\* The state of the variant src/index.ts.
indexVars == <<registry, objects, nTouches, touches, asked, orphaned>>

NoEvent == [kind |-> "none", id |-> 0]
NoLastCall == [at |-> 0, maxAge |-> NoMaxAge]

\* A call record: the arguments of the call (key, policy), the entry it was
\* issued on (0 with caching disabled), what touch did before its first
\* await (did), the fetch whose promise it awaits in #fetchNonConcurrent
\* (joined), and what the entry looked like when the call was issued (saw*).
NoCall == [key |-> "a", policy |-> "none", entry |-> 0, did |-> "unissued",
           joined |-> 0, sawInit |-> FALSE, sawValue |-> Undefined,
           sawPending |-> {}, sawResolved |-> 0, sawEvent |-> NoEvent]

\* The fetches started on entry e whose promise has not settled.
PendingOn(e) == {f \in Ids : fetchState[f] = "pending" /\ calls[f].entry = e}

\* get #isFetching
IsFetching(e) == promise[e] # 0

\* Variant of Expired that treats a value as expired once its age reaches maxAge.
ExpiredAtBoundary(e, maxAge) == maxAge # NoMaxAge /\ now >= lastFetch[e] + maxAge

\* Variant of Expired that lets a value live one time unit longer.
ExpiredLate(e, maxAge) == maxAge # NoMaxAge /\ now > lastFetch[e] + maxAge + 1

\* Date.now() > this.#lastFetch + maxAge; a missing maxAge gives NaN, and a
\* comparison with NaN is false.
Expired(e, maxAge) == maxAge # NoMaxAge /\ now > lastFetch[e] + maxAge

\* Variant of FetchNonConcurrent that never joins the promise in the handle.
FetchNonConcurrentNeverJoins(e) == "fetch"

\* #fetchNonConcurrent: join the promise in the handle, or start a fetch.
FetchNonConcurrent(e) == IF IsFetching(e) THEN "join" ELSE "fetch"

\* Variant of HandlePreInit that starts a fetch for every call.
HandlePreInitAlwaysFetches(e, policy) == "fetch"

\* Variant of HandlePreInit that serves cache-only calls from #value.
HandlePreInitServesCacheOnly(e, policy) ==
    IF policy \in {"none", "cache-only"} THEN "serve"
    ELSE IF policy = "network-only" THEN "fetch" ELSE FetchNonConcurrent(e)

\* #handlePreInit
HandlePreInit(e, policy) ==
    IF policy = "network-only" THEN "fetch" ELSE FetchNonConcurrent(e)

\* Variant of HandleCacheOnly that goes to the network.
HandleCacheOnlyFetches == "fetch"

\* #handleCacheOnly
HandleCacheOnly == "serve"

\* Variant of HandleNetworkOnly that answers from the cache.
HandleNetworkOnlyServes == "serve"

\* #handleNetworkOnly
HandleNetworkOnly == "fetch"

\* #handleNetworkOnlyNonConcurrent
HandleNetworkOnlyNonConcurrent(e) == FetchNonConcurrent(e)

\* #handleMaxAge
HandleMaxAge(e, maxAge) ==
    IF Expired(e, maxAge) THEN FetchNonConcurrent(e) ELSE "serve"

\* Variant of HandleSwr that revalidates at every call, whether or not a
\* fetch is in flight.
HandleSwrAlwaysRevalidates(e, maxAge) == "background"

\* Variant of HandleSwr whose caller awaits the fetch it starts.
HandleSwrAwaits(e, maxAge) ==
    IF ~IsFetching(e) /\ ((maxAge # NoMaxAge /\ maxAge # 0 /\ Expired(e, maxAge))
                          \/ maxAge = NoMaxAge \/ maxAge = 0)
    THEN FetchNonConcurrent(e)
    ELSE "serve"

\* #handleSwr: the guard holds only when the handle is empty, so the
\* #fetchNonConcurrent it calls starts a fetch; the caller does not await it.
HandleSwr(e, maxAge) ==
    IF ~IsFetching(e) /\ ((maxAge # NoMaxAge /\ maxAge # 0 /\ Expired(e, maxAge))
                          \/ maxAge = NoMaxAge \/ maxAge = 0)
    THEN IF FetchNonConcurrent(e) = "fetch" THEN "background" ELSE "serve"
    ELSE "serve"

\* Variant of Touch that applies the policy handlers to an entry that holds
\* no fetched value yet.
TouchWithoutPreInit(e, policy, maxAge) ==
    CASE policy = "none" -> HandleCacheOnly
      [] policy = "cache-only" -> HandleCacheOnly
      [] policy = "network-only" -> HandleNetworkOnly
      [] policy = "stale-while-revalidate" -> HandleSwr(e, maxAge)
      [] policy = "max-age" -> HandleMaxAge(e, maxAge)
      [] policy = "network-only-non-concurrent" -> HandleNetworkOnlyNonConcurrent(e)

\* touch: what a call on entry e does before its first await.
\*   "fetch"       invokes its fetch function and awaits it (#fetch)
\*   "join"        awaits the promise in the handle
\*   "serve"       returns #value
\*   "background"  invokes its fetch function, does not await it, returns #value
Touch(e, policy, maxAge) ==
    IF ~initialized[e] THEN HandlePreInit(e, policy)
    ELSE CASE policy = "none" -> HandleCacheOnly
           [] policy = "cache-only" -> HandleCacheOnly
           [] policy = "network-only" -> HandleNetworkOnly
           [] policy = "stale-while-revalidate" -> HandleSwr(e, maxAge)
           [] policy = "max-age" -> HandleMaxAge(e, maxAge)
           [] policy = "network-only-non-concurrent" -> HandleNetworkOnlyNonConcurrent(e)

\* A string is the sequence of its characters; a part passed to
\* Cacheables.key is a string or a number.
StringPart(chars) == [isNumber |-> FALSE, chars |-> chars, num |-> 0]
NumberPart(n) == [isNumber |-> TRUE, chars |-> <<>>, num |-> n]

\* The parts the calls of Cacheables.key are built from.
KeyParts ==
    {StringPart(<<"u", "s", "e", "r">>), StringPart(<<"p", "r", "o", "f", "i", "l", "e">>), StringPart(<<>>),
     NumberPart(0), NumberPart(5), NumberPart(12)}

\* The argument lists of Cacheables.key: up to n parts.
RECURSIVE KeyArgLists(_)
KeyArgLists(n) ==
    IF n = 0 THEN {<<>>}
    ELSE LET shorter == KeyArgLists(n - 1) IN
         shorter \cup {Append(l, p) : l \in {m \in shorter : Len(m) = n - 1}, p \in KeyParts}

NotCalled == <<"not called">>

\* Number::toString for a non-negative integer: its decimal numeral.
RECURSIVE NumberToString(_)
NumberToString(n) ==
    LET digit == <<"0", "1", "2", "3", "4", "5", "6", "7", "8", "9">>[(n % 10) + 1] IN
    IF n < 10 THEN <<digit>> ELSE Append(NumberToString(n \div 10), digit)

\* ToString of a part, as Array.prototype.join applies it to each element.
ToString(part) == IF part.isNumber THEN NumberToString(part.num) ELSE part.chars

\* Variant of Key that joins the parts with nothing between them.
RECURSIVE KeyWithoutDelimiter(_)
KeyWithoutDelimiter(args) ==
    IF args = <<>> THEN <<>>
    ELSE ToString(Head(args)) \o KeyWithoutDelimiter(Tail(args))

\* Cacheables.key: args.join(':').
RECURSIVE Key(_)
Key(args) ==
    IF args = <<>> THEN <<>>
    ELSE IF Len(args) = 1 THEN ToString(args[1])
    ELSE ToString(Head(args)) \o <<":">> \o Key(Tail(args))

\* The variant src/index.ts: cacheable(resource, key, maxAge?) and
\* isCached(key, maxAge?).  NoMaxAge stands for an omitted maxAge.
IndexMaxAges == {NoMaxAge, 0} \cup MaxAges

NoObject == [lastFetch |-> 0, value |-> Undefined, hits |-> 0, misses |-> 0]
NoTouch == [key |-> "a", did |-> "unissued", on |-> 0, at |-> 0,
            state |-> "none", result |-> 0]
NotAsked == [key |-> "a", maxAge |-> NoMaxAge, answer |-> FALSE, made |-> FALSE]

InitIndex ==
    /\ registry = [k \in Keys |-> 0]
    /\ objects = [o \in Ids |-> NoObject]
    /\ nTouches = 0
    /\ touches = [t \in Ids |-> NoTouch]
    /\ asked = NotAsked
    /\ orphaned = {}

Init ==
    /\ enabled = TRUE
    /\ now = 1
    /\ cacheables = [k \in Keys |-> 0]
    /\ hits = [e \in Ids |-> 0]
    /\ lastFetch = [e \in Ids |-> 0]
    /\ initialized = [e \in Ids |-> FALSE]
    /\ promise = [e \in Ids |-> 0]
    /\ value = [e \in Ids |-> Undefined]
    /\ nCalls = 0
    /\ calls = [c \in Ids |-> NoCall]
    /\ fetchState = [c \in Ids |-> "none"]
    /\ status = [c \in Ids |-> "none"]
    /\ result = [c \in Ids |-> 0]
    /\ lastResolved = [e \in Ids |-> 0]
    /\ lastEvent = [e \in Ids |-> NoEvent]
    /\ called = {}
    /\ cleared = FALSE
    /\ lastFetchBefore = [e \in Ids |-> 0]
    /\ lastCall = NoLastCall
    /\ keyArgs = <<>>
    /\ keyResult = NotCalled
    /\ InitIndex

\* The record of call c, issued on entry e with decision did.
CallRecord(c, k, o, e, did) ==
    [key |-> k, policy |-> o.cachePolicy, entry |-> e, did |-> did,
     joined |-> IF did = "join" THEN promise[e] ELSE 0,
     sawInit |-> IF e = 0 THEN FALSE ELSE initialized[e],
     sawValue |-> IF e = 0 THEN Undefined ELSE value[e],
     sawPending |-> IF e = 0 THEN {} ELSE PendingOn(e),
     sawResolved |-> IF e = 0 THEN 0 ELSE lastResolved[e],
     sawEvent |-> IF e = 0 THEN NoEvent ELSE lastEvent[e]]

\* Variant of CallDisabled that enters the key in the registry before it
\* looks at the enabled flag.
CallDisabledRegisters(k, o) ==
    /\ ~enabled
    /\ nCalls < MaxCalls
    /\ LET c == nCalls + 1 IN
        /\ nCalls' = c
        /\ cacheables' = [cacheables EXCEPT ![k] = IF @ = 0 THEN c ELSE @]
        /\ calls' = [calls EXCEPT ![c] = CallRecord(c, k, o, 0, "fetch")]
        /\ fetchState' = [fetchState EXCEPT ![c] = "pending"]
        /\ status' = [status EXCEPT ![c] = "pending"]
    /\ lastCall' = [at |-> now, maxAge |-> o.maxAge]
    /\ UNCHANGED <<enabled, now, hits, lastFetch, initialized, promise,
                   value, result, lastResolved, lastEvent, called, cleared,
                   lastFetchBefore, keyArgs, keyResult, indexVars>>

\* Cacheables.cacheable with caching disabled: return resource().
CallDisabled(k, o) ==
    /\ ~enabled
    /\ nCalls < MaxCalls
    /\ LET c == nCalls + 1 IN
        /\ nCalls' = c
        /\ calls' = [calls EXCEPT ![c] = CallRecord(c, k, o, 0, "fetch")]
        /\ fetchState' = [fetchState EXCEPT ![c] = "pending"]
        /\ status' = [status EXCEPT ![c] = "pending"]
    /\ lastCall' = [at |-> now, maxAge |-> o.maxAge]
    /\ UNCHANGED <<enabled, now, cacheables, hits, lastFetch, initialized, promise,
                   value, result, lastResolved, lastEvent, called, cleared,
                   lastFetchBefore, keyArgs, keyResult, indexVars>>

\* Variant of EntryFor that replaces the entry of the key at every call.
EntryForEveryCall(k, c) == c

\* Variant of EntryFor that hands out an entry of the registry whatever its key.
EntryForAnyKey(k, c) ==
    LET held == {l \in Keys : cacheables[l] # 0} IN
    IF held = {} THEN c ELSE cacheables[CHOOSE l \in held : TRUE]

\* #cacheable: the entry registered under key k, or a new one (with the id
\* of the call c that creates it).
EntryFor(k, c) == IF cacheables[k] = 0 THEN c ELSE cacheables[k]

\* Cacheables.cacheable with caching enabled: #cacheable looks the entry up
\* or creates it, then Cacheable.touch runs to its first await.
Call(k, o) ==
    /\ enabled
    /\ nCalls < MaxCalls
    /\ LET c == nCalls + 1
           e == EntryFor(k, c)
           did == Touch(e, o.cachePolicy, o.maxAge)
           starts == did \in {"fetch", "background"}
           serves == did \in {"serve", "background"}
       IN
        /\ nCalls' = c
        /\ cacheables' = [cacheables EXCEPT ![k] = e]
        /\ calls' = [calls EXCEPT ![c] = CallRecord(c, k, o, e, did)]
        /\ lastFetch' = IF starts THEN [lastFetch EXCEPT ![e] = now] ELSE lastFetch
        /\ promise' = IF starts THEN [promise EXCEPT ![e] = c] ELSE promise
        /\ fetchState' = IF starts THEN [fetchState EXCEPT ![c] = "pending"]
                         ELSE fetchState
        /\ hits' = IF serves THEN [hits EXCEPT ![e] = @ + 1] ELSE hits
        /\ status' = [status EXCEPT ![c] = IF serves THEN "resolved" ELSE "pending"]
        /\ result' = IF serves THEN [result EXCEPT ![c] = value[e]] ELSE result
        /\ lastEvent' = [lastEvent EXCEPT ![e] = [kind |-> "call", id |-> c]]
        /\ called' = called \cup {k}
        /\ cleared' = FALSE
        /\ lastFetchBefore' = IF starts THEN [lastFetchBefore EXCEPT ![e] = lastFetch[e]]
                              ELSE lastFetchBefore
    /\ lastCall' = [at |-> now, maxAge |-> o.maxAge]
    /\ UNCHANGED <<enabled, now, initialized, value, lastResolved, keyArgs, keyResult, indexVars>>

\* Variant of Joiners that wakes every caller waiting on the entry of f.
JoinersOfEntry(f) ==
    {c \in Ids : calls[c].did = "join" /\ status[c] = "pending"
                 /\ calls[c].entry = calls[f].entry}

\* The callers awaiting the promise of fetch f in #fetchNonConcurrent.
Joiners(f) == {c \in Ids : calls[c].did = "join" /\ calls[c].joined = f}

\* Variant of HitsLoggedOnSettle that counts the joiners of a rejected fetch too.
HitsLoggedOnAnySettle(f, ok) == Cardinality(Joiners(f))

\* The hits logged when the promise of fetch f settles: each joiner calls
\* #logHit after its await, so only when the promise resolved.
HitsLoggedOnSettle(f, ok) == IF ok THEN Cardinality(Joiners(f)) ELSE 0

\* Variant of StoredOnResolve in which the result of the fetch that started
\* last is kept, whichever fetch settles last.
StoredOnResolveLatestStarted(e, v) == IF value[e] > v THEN value[e] ELSE v

\* What #fetch stores in #value when its promise resolves with v.
StoredOnResolve(e, v) == v

\* Variant of StoredOnReject that drops the stored value.
StoredOnRejectClears(e) == Undefined

\* What #fetch leaves in #value when its promise rejects.
StoredOnReject(e) == value[e]

\* Variant of HandleAfterSettle without the finally block: the handle keeps
\* the settled promise.
HandleAfterSettleKeeps(e, f) == promise[e]

\* What #fetch leaves in #promise once its promise has settled (finally).
HandleAfterSettle(e, f) == 0

\* Variant of InitializedAfter that assigns the flag on every settlement, so
\* that a rejection takes it back.
InitializedAfterFollowsOutcome(e, ok) == ok

\* Variant of InitializedAfter that sets the flag in the finally block.
InitializedAfterAnySettle(e, ok) == TRUE

\* #initialized after #fetch's promise settled: set only past the await.
InitializedAfter(e, ok) == initialized[e] \/ ok

\* Variant of JoinerReturns in which the joiner reads #value before #fetch
\* has stored the new value.
JoinerReturnsStale(e, stored) == value[e]

\* What a caller that awaited the promise in #fetchNonConcurrent returns
\* after that promise resolved: this.#value, read after #fetch stored it.
JoinerReturns(e, stored) == stored

\* Variant of Retried in which #fetch calls resource() again after a rejection.
RetriedOnReject(f, ok) == ~ok

\* #fetch has try/finally and no catch: when the await throws it does not
\* call resource() again.
Retried(f, ok) == FALSE

\* Variant of LastFetchAfterSettle that stamps the entry when the value arrives.
LastFetchAtCompletion(e, ok) == IF ok THEN now ELSE lastFetch[e]

\* #lastFetch after the promise of a fetch settled: #fetch wrote it before
\* calling resource() and does not write it again.
LastFetchAfterSettle(e, ok) == lastFetch[e]

\* Variant of Awaited in which #handleSwr returns the fetch it starts.
AwaitedAlways(f) == TRUE

\* The caller of fetch f returned the promise of #fetch, so it settles with
\* the fetch; #handleSwr drops that promise and has returned #value.
Awaited(f) == calls[f].did = "fetch"

\* Variant of EntryOfFetch that looks the entry up in the registry when the
\* promise settles.
EntryOfKeyAtSettlement(f) ==
    IF calls[f].entry = 0 THEN 0 ELSE cacheables[calls[f].key]

\* The Cacheable object whose #fetch awaits the promise of fetch f (this in
\* #fetch): the entry the call was issued on, 0 for a call with caching
\* disabled.
EntryOfFetch(f) == calls[f].entry

\* The promise returned by the fetch function of call f resolves (ok) or
\* rejects: the continuation of #fetch runs, then those of its joiners.
Settle(f, ok) ==
    /\ fetchState[f] = "pending"
    /\ fetchState' = [fetchState EXCEPT ![f] =
           IF Retried(f, ok) THEN "pending" ELSE IF ok THEN "resolved" ELSE "rejected"]
    /\ LET e == EntryOfFetch(f)
           awaited == Awaited(f)
           J == Joiners(f)
           done == (IF awaited THEN {f} ELSE {}) \cup J
           stored == IF ok THEN StoredOnResolve(e, f) ELSE StoredOnReject(e)
       IN
        IF e = 0
        THEN /\ status' = [status EXCEPT ![f] = IF ok THEN "resolved" ELSE "rejected"]
             /\ result' = [result EXCEPT ![f] = f]
             /\ UNCHANGED <<hits, lastFetch, initialized, promise, value, lastResolved,
                            lastEvent>>
        ELSE /\ value' = [value EXCEPT ![e] = stored]
             /\ lastFetch' = [lastFetch EXCEPT ![e] = LastFetchAfterSettle(e, ok)]
             /\ initialized' = [initialized EXCEPT ![e] = InitializedAfter(e, ok)]
             /\ promise' = [promise EXCEPT ![e] = HandleAfterSettle(e, f)]
             /\ hits' = [hits EXCEPT ![e] = @ + HitsLoggedOnSettle(f, ok)]
             /\ status' = [c \in Ids |->
                   IF c \in done THEN (IF ok THEN "resolved" ELSE "rejected")
                   ELSE status[c]]
             /\ result' = [c \in Ids |->
                   IF c \notin done THEN result[c]
                   ELSE IF ~ok THEN f
                   ELSE IF c = f THEN stored ELSE JoinerReturns(e, stored)]
             /\ lastResolved' = IF ok THEN [lastResolved EXCEPT ![e] = f]
                                ELSE lastResolved
             /\ lastEvent' = [lastEvent EXCEPT ![e] =
                   [kind |-> IF ok THEN "resolve" ELSE "reject", id |-> f]]
    /\ UNCHANGED <<enabled, now, cacheables, nCalls, calls, called, cleared,
                   lastFetchBefore, keyArgs, keyResult, lastCall, indexVars>>

\* Variant of IsCached that reports only entries holding a fetched value.
IsCachedInitialized(k) == cacheables[k] # 0 /\ initialized[cacheables[k]]

\* Cacheables.isCached
IsCached(k) == cacheables[k] # 0

\* Cacheables.keys: Object.keys(#cacheables), each own key once.
KeysOf == {k \in Keys : cacheables[k] # 0}

\* Variant of Delete that leaves the entry in the registry.
DeleteKeepsEntry(k) ==
    /\ called' = called \ {k}
    /\ UNCHANGED <<enabled, now, cacheables, hits, lastFetch, initialized, promise,
                   value, nCalls, calls, fetchState, status, result, lastResolved,
                   lastEvent, cleared, lastFetchBefore, keyArgs, keyResult, lastCall, indexVars>>

\* Cacheables.delete
Delete(k) ==
    /\ cacheables' = [cacheables EXCEPT ![k] = 0]
    /\ called' = called \ {k}
    /\ UNCHANGED <<enabled, now, hits, lastFetch, initialized, promise, value,
                   nCalls, calls, fetchState, status, result, lastResolved, lastEvent,
                   cleared, lastFetchBefore, keyArgs, keyResult, lastCall, indexVars>>

\* Variant of Clear that leaves the entries in the registry.
ClearKeepsEntries ==
    /\ called' = {}
    /\ cleared' = TRUE
    /\ UNCHANGED <<enabled, now, cacheables, hits, lastFetch, initialized, promise,
                   value, nCalls, calls, fetchState, status, result, lastResolved,
                   lastEvent, lastFetchBefore, keyArgs, keyResult, lastCall, indexVars>>

\* Cacheables.clear
Clear ==
    /\ cacheables' = [k \in Keys |-> 0]
    /\ called' = {}
    /\ cleared' = TRUE
    /\ UNCHANGED <<enabled, now, hits, lastFetch, initialized, promise, value,
                   nCalls, calls, fetchState, status, result, lastResolved, lastEvent,
                   lastFetchBefore, keyArgs, keyResult, lastCall, indexVars>>

\* Assignment to the public field Cacheables.enabled.
SetEnabled(b) ==
    /\ enabled' = b
    /\ UNCHANGED <<now, cacheables, hits, lastFetch, initialized, promise, value,
                   nCalls, calls, fetchState, status, result, lastResolved, lastEvent,
                   called, cleared, lastFetchBefore, keyArgs, keyResult, lastCall, indexVars>>

\* Time passes.
Tick ==
    /\ now < MaxTime
    /\ now' = now + 1
    /\ UNCHANGED <<enabled, cacheables, hits, lastFetch, initialized, promise, value,
                   nCalls, calls, fetchState, status, result, lastResolved, lastEvent,
                   called, cleared, lastFetchBefore, keyArgs, keyResult, lastCall, indexVars>>

Next ==
    \/ \E o \in CacheableOptions : Call("a", o)
    \/ \E f \in Ids, ok \in BOOLEAN : Settle(f, ok)
    \/ Delete("a")
    \/ Tick

Spec == Init /\ [][Next]_vars

\* The registry under two keys, with caching switched off and on, delete and
\* clear; the calls use the policies that decide without looking at the clock.
RegistryOptions ==
    {o \in CacheableOptions : o.cachePolicy \in {"cache-only", "network-only"}}

NextRegistry ==
    \/ \E k \in Keys, o \in RegistryOptions : Call(k, o)
    \/ \E k \in Keys, o \in RegistryOptions : CallDisabled(k, o)
    \/ \E f \in Ids, ok \in BOOLEAN : Settle(f, ok)
    \/ \E k \in Keys : Delete(k)
    \/ Clear
    \/ \E b \in BOOLEAN : SetEnabled(b)

SpecRegistry == Init /\ [][NextRegistry]_vars

\* A call of the static function Cacheables.key; it touches no registry.
CallKey ==
    /\ keyResult = NotCalled
    /\ keyResult' = Key(keyArgs)
    /\ UNCHANGED <<enabled, now, cacheables, hits, lastFetch, initialized, promise, value,
                   nCalls, calls, fetchState, status, result, lastResolved, lastEvent,
                   called, cleared, lastFetchBefore, keyArgs, lastCall, indexVars>>

\* The arguments of the call of Cacheables.key are drawn from KeyArgLists.
InitKey ==
    /\ enabled = TRUE
    /\ now = 1
    /\ cacheables = [k \in Keys |-> 0]
    /\ hits = [e \in Ids |-> 0]
    /\ lastFetch = [e \in Ids |-> 0]
    /\ initialized = [e \in Ids |-> FALSE]
    /\ promise = [e \in Ids |-> 0]
    /\ value = [e \in Ids |-> Undefined]
    /\ nCalls = 0
    /\ calls = [c \in Ids |-> NoCall]
    /\ fetchState = [c \in Ids |-> "none"]
    /\ status = [c \in Ids |-> "none"]
    /\ result = [c \in Ids |-> 0]
    /\ lastResolved = [e \in Ids |-> 0]
    /\ lastEvent = [e \in Ids |-> NoEvent]
    /\ called = {}
    /\ cleared = FALSE
    /\ lastFetchBefore = [e \in Ids |-> 0]
    /\ lastCall = NoLastCall
    /\ keyArgs \in KeyArgLists(MaxParts)
    /\ keyResult = NotCalled
    /\ InitIndex

NextKey == CallKey

SpecKey == InitKey /\ [][NextKey]_vars

(***************************************************************************)
(* The variant src/index.ts.  The n-th cacheable call has id n, its        *)
(* resource resolves to the value n or rejects with the error n, and the   *)
(* Cacheable object that call n constructs has id n.                       *)
(***************************************************************************)
coreVars == <<cacheables, hits, lastFetch, initialized, promise, value, nCalls, calls,
              fetchState, status, result, lastResolved, lastEvent, called, cleared,
              lastFetchBefore, lastCall, keyArgs, keyResult>>

\* Cacheable.timedOut of object o.
TimedOutAtBoundary(o, maxAge) ==
    IF objects[o].lastFetch = 0 THEN TRUE
    ELSE now >= objects[o].lastFetch + maxAge

TimedOut(o, maxAge) ==
    IF objects[o].lastFetch = 0 THEN TRUE
    ELSE now > objects[o].lastFetch + maxAge

\* Cacheable.touch of object o: what it does before its first await.
IndexTouch(o, maxAge) ==
    IF objects[o].lastFetch = 0 THEN "fetch"
    ELSE IF maxAge # NoMaxAge /\ maxAge # 0
         THEN IF TimedOut(o, maxAge) THEN "miss" ELSE "hit"
         ELSE "hit"

\* Cacheables.isCached(key, maxAge).
IndexIsCached(k, maxAge) ==
    IF registry[k] = 0 THEN FALSE
    ELSE IF maxAge = NoMaxAge THEN TRUE
    ELSE IF maxAge = 0 THEN FALSE
    ELSE ~TimedOut(registry[k], maxAge)

\* Cacheables.keys().
IndexKeys == {k \in Keys : registry[k] # 0}

\* cacheable(resource, k, maxAge) with caching enabled (the default the
\* constructor sets), to its first await:
\* without an object for k, Cacheable.create constructs one and starts its
\* first fetch (the object is registered when that fetch resolves); with
\* an object, touch serves its value or starts a fetch.
IndexCacheable(k, maxAge) ==
    /\ enabled
    /\ nTouches < MaxCalls
    /\ LET t == nTouches + 1
           o == IF registry[k] = 0 THEN t ELSE registry[k]
           did == IF registry[k] = 0 THEN "create" ELSE IndexTouch(o, maxAge)
       IN  /\ nTouches' = t
           /\ objects' =
                [objects EXCEPT ![o] =
                    IF did = "hit" THEN [@ EXCEPT !.hits = @ + 1]
                    ELSE IF did = "miss"
                         THEN [@ EXCEPT !.misses = @ + 1, !.lastFetch = now]
                    ELSE [@ EXCEPT !.lastFetch = now]]
           /\ touches' =
                [touches EXCEPT ![t] =
                    [key |-> k, did |-> did, on |-> o, at |-> now,
                     state |-> IF did = "hit" THEN "resolved" ELSE "pending",
                     result |-> IF did = "hit" THEN objects[o].value ELSE 0]]
    /\ UNCHANGED <<enabled, now, registry, asked, orphaned, coreVars>>

\* The resource of call t settles: fetch stores the value it resolved to,
\* and #cacheable registers the object that Cacheable.create returned.
IndexSettle(t, ok) ==
    /\ touches[t].state = "pending"
    /\ LET o == touches[t].on
       IN  /\ objects' = IF ok THEN [objects EXCEPT ![o].value = t] ELSE objects
           /\ registry' = IF ok /\ touches[t].did = "create"
                          THEN [registry EXCEPT ![touches[t].key] = o]
                          ELSE registry
           /\ touches' = [touches EXCEPT ![t].state = IF ok THEN "resolved" ELSE "rejected",
                                         ![t].result = t]
    /\ orphaned' = orphaned \ {t}
    /\ UNCHANGED <<enabled, now, nTouches, asked, coreVars>>

\* Cacheables.delete(k).
IndexDelete(k) ==
    /\ registry' = [registry EXCEPT ![k] = 0]
    /\ orphaned' = orphaned \cup {t \in Ids : touches[t].state = "pending" /\ touches[t].key = k}
    /\ UNCHANGED <<enabled, now, objects, nTouches, touches, asked, coreVars>>

\* Cacheables.clear().
IndexClear ==
    /\ registry' = [k \in Keys |-> 0]
    /\ orphaned' = {t \in Ids : touches[t].state = "pending"}
    /\ UNCHANGED <<enabled, now, objects, nTouches, touches, asked, coreVars>>

\* A call of isCached(k, maxAge); asked records the call and its answer.
AskIsCached(k, maxAge) ==
    /\ asked' = [key |-> k, maxAge |-> maxAge, answer |-> IndexIsCached(k, maxAge),
                 made |-> TRUE]
    /\ UNCHANGED <<enabled, now, registry, objects, nTouches, touches, orphaned, coreVars>>

NextIndex ==
    \/ \E k \in Keys, m \in IndexMaxAges : IndexCacheable(k, m)
    \/ \E t \in Ids, ok \in BOOLEAN : IndexSettle(t, ok)
    \/ \E k \in Keys : IndexDelete(k)
    \/ IndexClear
    \/ \E k \in Keys, m \in IndexMaxAges : AskIsCached(k, m)
    \/ Tick

SpecIndex == Init /\ [][NextIndex]_vars

\* The calls and settlements on one key under the assumption that every
\* promise returned by a fetch function settles: a pending promise is
\* eventually resolved or rejected.  Callers are not obliged to call.
NextSettling ==
    \/ \E o \in CacheableOptions : Call("a", o)
    \/ \E f \in Ids, ok \in BOOLEAN : Settle(f, ok)
    \/ Tick

EveryFetchSettles == \A f \in Ids : WF_vars(\E ok \in BOOLEAN : Settle(f, ok))

SpecSettling == Init /\ [][NextSettling]_vars /\ EveryFetchSettles

TypeOK ==
    /\ enabled \in BOOLEAN
    /\ now \in 1..MaxTime
    /\ nCalls \in 0..MaxCalls
    /\ \A k \in Keys : cacheables[k] \in 0..nCalls
    /\ \A e \in Ids : promise[e] \in 0..nCalls /\ value[e] \in 0..nCalls

(***************************************************************************)
(* Vocabulary of the claims.                                               *)
(***************************************************************************)
Issued == 1..nCalls

\* Call c invoked the fetch function passed to it.
Invoked(c) == calls[c].did \in {"fetch", "background"}

\* Calls f and c were issued on the same entry of the registry.
SameEntry(f, c) == calls[f].entry # 0 /\ calls[f].entry = calls[c].entry

\* No fetch function was invoked on the entry of f by a call issued
\* after f and before c.
NoFetchBetween(f, c) ==
    \A g \in Issued : (f < g /\ g < c /\ SameEntry(f, g)) => ~Invoked(g)

\* Call c was issued on an entry that was initialized at that moment.
OnInitialized(c) == calls[c].entry # 0 /\ calls[c].sawInit

\* Call c was issued on an entry that was not initialized at that moment.
OnUninitialized(c) == calls[c].entry # 0 /\ ~calls[c].sawInit

IsCacheOnly(c) == calls[c].policy \in {"cache-only", "none"}

(***************************************************************************)
(* C1  Non-concurrency join.  Fetch f was started by a                     *)
(* network-only-non-concurrent call on an entry with no fetch in flight;   *)
(* every network-only-non-concurrent call c issued on that entry before f  *)
(* settled, f being the only fetch function invoked on the entry since f   *)
(* started, joins f: c does not invoke its fetch function, and when f      *)
(* resolves both the first caller and c receive f's value.  A              *)
(* network-only-non-concurrent call issued with no fetch in flight starts  *)
(* a fetch of its own.                                                     *)
(***************************************************************************)
IsNonConcurrent(c) == calls[c].policy = "network-only-non-concurrent"

\* f is the first caller's fetch and c a caller issued before f settled.
JoinWindow(f, c) ==
    /\ f \in Issued /\ c \in Issued /\ f < c
    /\ IsNonConcurrent(f) /\ IsNonConcurrent(c)
    /\ SameEntry(f, c)
    /\ Invoked(f) /\ calls[f].sawPending = {}
    /\ f \in calls[c].sawPending
    /\ NoFetchBetween(f, c)

C1_NonConcurrencyJoin ==
    /\ \A f \in Issued, c \in Issued :
          JoinWindow(f, c) =>
            /\ ~Invoked(c)
            /\ calls[c].joined = f
            /\ fetchState[f] = "pending" => status[c] = "pending"
            /\ fetchState[f] = "resolved" =>
                  /\ status[f] = "resolved" /\ result[f] = f
                  /\ status[c] = "resolved" /\ result[c] = f
    /\ \A c \in Issued :
          (IsNonConcurrent(c) /\ calls[c].entry # 0 /\ calls[c].sawPending = {})
            => calls[c].did = "fetch"

\* Three callers (k = 3) have received the value of the first caller's fetch.
C1_Witness ==
    \E f \in Issued, c \in Issued, d \in Issued :
        /\ c # d /\ JoinWindow(f, c) /\ JoinWindow(f, d)
        /\ fetchState[f] = "resolved"
        /\ result[f] = f /\ result[c] = f /\ result[d] = f

(***************************************************************************)
(* C2  Idempotence of cache-only.  A cache-only call (or a call without    *)
(* options) issued on an initialized entry never invokes its fetch         *)
(* function and returns at once the value of the fetch that resolved most  *)
(* recently on that entry, whether or not a fetch is in flight.            *)
(***************************************************************************)
C2_CacheOnlyIdempotent ==
    \A c \in Issued :
        (IsCacheOnly(c) /\ OnInitialized(c)) =>
            /\ ~Invoked(c) /\ calls[c].did = "serve"
            /\ fetchState[c] = "none"
            /\ status[c] = "resolved"
            /\ calls[c].sawResolved # 0
            /\ result[c] = calls[c].sawResolved

\* A cache-only call returned the value of the resolved fetch while another
\* fetch was in flight on the entry.
C2_Witness ==
    \E f \in Issued, c \in Issued :
        /\ IsCacheOnly(c) /\ OnInitialized(c)
        /\ status[c] = "resolved" /\ result[c] = f /\ fetchState[f] = "resolved"
        /\ calls[c].sawPending # {}

NoNetworkOnlyBefore(c) ==
    \A g \in Issued :
        (g < c /\ SameEntry(g, c)) => calls[g].policy # "network-only"

CreatedEntry(c) == calls[c].entry = c

C4_FirstCallFetches ==
    \A c \in Issued :
        CreatedEntry(c) =>
            /\ calls[c].did = "fetch"
            /\ fetchState[c] = "pending" => status[c] = "pending"
            /\ fetchState[c] = "resolved" => (status[c] = "resolved" /\ result[c] = c)
            /\ fetchState[c] = "rejected" => (status[c] = "rejected" /\ result[c] = c)

\* First calls with the policies that otherwise never wait for a fetch
\* returned the value their own fetch resolved with.
C4_Witness ==
    \E c \in Issued, d \in Issued :
        /\ CreatedEntry(c) /\ calls[c].policy = "cache-only"
        /\ CreatedEntry(d) /\ calls[d].policy = "stale-while-revalidate"
        /\ status[c] = "resolved" /\ result[c] = c
        /\ status[d] = "resolved" /\ result[d] = d

(***************************************************************************)
(* C5  Max-age.  On an initialized entry whose last fetch started at       *)
(* lastFetch, a max-age call issued at a time strictly before              *)
(* lastFetch + maxAge returns the stored value without invoking its fetch  *)
(* function; a max-age call issued strictly after lastFetch + maxAge with  *)
(* no fetch in flight invokes its fetch function and, when the fetch       *)
(* resolves, returns the new value; a later max-age call that is served    *)
(* from the cache while that fetch is the latest resolved one returns that *)
(* value.                                                                  *)
(***************************************************************************)
C5_MaxAgeStep ==
    \A k \in Keys, o \in CacheableOptions :
        LET e == cacheables[k]
            c == nCalls + 1
        IN  (/\ Call(k, o)
             /\ o.cachePolicy = "max-age" /\ o.maxAge \in MaxAges
             /\ e # 0 /\ initialized[e]) =>
               /\ now < lastFetch[e] + o.maxAge =>
                     /\ calls'[c].did = "serve" /\ fetchState'[c] = "none"
                     /\ status'[c] = "resolved" /\ result'[c] = value[e]
               /\ (now > lastFetch[e] + o.maxAge /\ PendingOn(e) = {}) =>
                     /\ calls'[c].did = "fetch" /\ fetchState'[c] = "pending"
                     /\ status'[c] = "pending" /\ lastFetch'[e] = now

C5_MaxAgeOutcome ==
    \A c \in Issued :
        (calls[c].policy = "max-age" /\ OnInitialized(c)) =>
            /\ (calls[c].did = "fetch" /\ fetchState[c] = "resolved") =>
                  (status[c] = "resolved" /\ result[c] = c)
            /\ calls[c].did = "serve" =>
                  (status[c] = "resolved" /\ result[c] = calls[c].sawResolved)

MadeAfterSettled(f, c) == f < c /\ f \notin calls[c].sawPending

\* A stale-while-revalidate call on an initialized entry returns at once
\* the value stored when it was issued.
SwrServesStored ==
    \A c \in Issued :
        (calls[c].policy = "stale-while-revalidate" /\ OnInitialized(c)) =>
            /\ calls[c].did \in {"serve", "background"}
            /\ status[c] = "resolved"
            /\ result[c] = calls[c].sawValue

(***************************************************************************)
(* C6  Stale-while-revalidate is non-blocking, as the claim states it: on  *)
(* an initialized entry a stale-while-revalidate call returns the value    *)
(* stored at the moment of the call without waiting for any fetch, and the *)
(* result of a background fetch is returned only by calls made after that  *)
(* fetch has settled.                                                      *)
(***************************************************************************)
C6_SwrOnlyLaterCalls ==
    /\ SwrServesStored
    /\ \A f \in Issued, c \in Issued :
          (calls[f].did = "background" /\ status[c] = "resolved" /\ result[c] = f)
            => MadeAfterSettled(f, c)

(***************************************************************************)
(* C6, amended: on an initialized entry a stale-while-revalidate call      *)
(* returns the value stored at the moment of the call without waiting for  *)
(* any fetch, and the result of a background fetch is returned only by     *)
(* calls made after that fetch has settled or by the                       *)
(* network-only-non-concurrent and max-age calls that joined it while it   *)
(* was pending and waited for it.                                          *)
(***************************************************************************)
C6_SwrNonBlocking ==
    /\ SwrServesStored
    /\ \A f \in Issued, c \in Issued :
          (calls[f].did = "background" /\ status[c] = "resolved" /\ result[c] = f) =>
            \/ MadeAfterSettled(f, c)
            \/ /\ calls[c].joined = f /\ fetchState[f] = "resolved"
               /\ calls[c].policy \in {"network-only-non-concurrent", "max-age"}

\* A stale-while-revalidate call started a background fetch and returned the
\* old value; a stale-while-revalidate call made after the fetch settled
\* returned the new one.
C6_Witness ==
    \E f \in Issued, c \in Issued :
        /\ calls[f].policy = "stale-while-revalidate" /\ OnInitialized(f)
        /\ calls[f].did = "background"
        /\ result[f] = calls[f].sawValue /\ result[f] # f
        /\ fetchState[f] = "resolved"
        /\ calls[c].policy = "stale-while-revalidate" /\ MadeAfterSettled(f, c)
        /\ status[c] = "resolved" /\ result[c] = f

(***************************************************************************)
(* C7  On an initialized entry a stale-while-revalidate call invokes its   *)
(* fetch function only if no fetch is in flight on the entry and (no       *)
(* maxAge is given or the entry is older than maxAge).                     *)
(***************************************************************************)
C7_SwrStep ==
    \A k \in Keys, o \in CacheableOptions :
        LET e == cacheables[k]
            c == nCalls + 1
        IN  (/\ Call(k, o)
             /\ o.cachePolicy = "stale-while-revalidate"
             /\ e # 0 /\ initialized[e]
             /\ calls'[c].did \in {"fetch", "background"}) =>
               /\ PendingOn(e) = {}
               /\ o.maxAge = NoMaxAge \/ now > lastFetch[e] + o.maxAge

C7_SwrFetchesOnlyWhenIdle == [][C7_SwrStep]_vars

(***************************************************************************)
(* C8  Failure isolation.  The rejection of a fetch leaves the stored      *)
(* value and the initialized flag of every entry as they were; after a     *)
(* fetch started on an initialized entry has rejected, with no fetch       *)
(* resolving on the entry since that attempt started, the entry holds and  *)
(* a cache-only call returns the value stored before the attempt.          *)
(***************************************************************************)
C8_RejectStep ==
    \A f \in Ids :
        (fetchState[f] = "pending" /\ fetchState'[f] = "rejected") =>
            (value' = value /\ initialized' = initialized)

C8_AfterFailure ==
    /\ \A e \in Ids :
          LET f == lastEvent[e].id IN
          (/\ lastEvent[e].kind = "reject" /\ OnInitialized(f)
           /\ lastResolved[e] = calls[f].sawResolved) =>
             (initialized[e] /\ value[e] = calls[f].sawValue)
    /\ \A f \in Issued, c \in Issued :
          (/\ SameEntry(f, c) /\ OnInitialized(f) /\ Invoked(f)
           /\ fetchState[f] = "rejected" /\ MadeAfterSettled(f, c)
           /\ IsCacheOnly(c)
           /\ calls[c].sawResolved = calls[f].sawResolved) =>
             (status[c] = "resolved" /\ result[c] = calls[f].sawValue)

C8_FailureIsolation == [][C8_RejectStep]_vars /\ []C8_AfterFailure

\* A fetch on an initialized entry rejected and a later cache-only call
\* returned the value stored before the attempt.
C8_Witness ==
    \E f \in Issued, c \in Issued :
        /\ SameEntry(f, c) /\ OnInitialized(f) /\ Invoked(f)
        /\ fetchState[f] = "rejected" /\ MadeAfterSettled(f, c)
        /\ calls[c].policy = "cache-only"
        /\ calls[c].sawResolved = calls[f].sawResolved
        /\ calls[f].sawValue # Undefined
        /\ status[c] = "resolved" /\ result[c] = calls[f].sawValue

(***************************************************************************)
(* C9  A rejected fetch is never cached.  When the first fetch of an entry *)
(* rejects with error E, the call that started it rejects with E; if it is *)
(* the only fetch invoked on the entry so far, the entry is left           *)
(* uninitialized with no stored value, and the next call on the entry, of  *)
(* any policy, invokes its own fetch function and completes with that      *)
(* fetch's outcome, not with a cached value or the earlier error.          *)
(***************************************************************************)
Rejection(f) == [kind |-> "reject", id |-> f]

\* The first fetch of entry e is the only fetch invoked on e by the calls
\* issued before c.
OnlyFirstFetchBefore(e, c) ==
    \A g \in Issued : (g < c /\ g # e /\ calls[g].entry = e) => ~Invoked(g)

C9_RejectedNotCached ==
    /\ \A f \in Issued :
          (CreatedEntry(f) /\ fetchState[f] = "rejected") =>
              (status[f] = "rejected" /\ result[f] = f)
    /\ \A e \in Issued :
          (lastEvent[e] = Rejection(e) /\ OnlyFirstFetchBefore(e, nCalls + 1)) =>
              (~initialized[e] /\ value[e] = Undefined /\ lastResolved[e] = 0)
    /\ \A c \in Issued :
          LET e == calls[c].entry IN
          (e # 0 /\ calls[c].sawEvent = Rejection(e) /\ OnlyFirstFetchBefore(e, c)) =>
              /\ ~calls[c].sawInit
              /\ calls[c].did = "fetch"
              /\ fetchState[c] = "pending" => status[c] = "pending"
              /\ fetchState[c] = "resolved" => (status[c] = "resolved" /\ result[c] = c)
              /\ fetchState[c] = "rejected" => (status[c] = "rejected" /\ result[c] = c)

\* The first fetch of an entry rejected; the next call, a cache-only call,
\* invoked its own fetch function and returned its value.
C9_Witness ==
    \E f \in Issued, c \in Issued :
        /\ CreatedEntry(f) /\ status[f] = "rejected" /\ result[f] = f
        /\ calls[c].entry = f /\ calls[c].sawEvent = Rejection(f)
        /\ OnlyFirstFetchBefore(f, c)
        /\ calls[c].policy = "cache-only"
        /\ status[c] = "resolved" /\ result[c] = c

(***************************************************************************)
(* C10  Failure propagation scope.  When a fetch that its caller awaits    *)
(* rejects with error E, that caller and every caller that joined the      *)
(* fetch reject with E; a call rejects only with the error of the fetch it *)
(* started or joined; a call served from the cache never rejects.          *)
(***************************************************************************)
C10_FailurePropagation ==
    /\ \A f \in Issued :
          (calls[f].did = "fetch" /\ fetchState[f] = "rejected") =>
              /\ status[f] = "rejected" /\ result[f] = f
              /\ \A c \in Issued :
                    calls[c].joined = f => (status[c] = "rejected" /\ result[c] = f)
    /\ \A c \in Issued :
          status[c] = "rejected" =>
              /\ result[c] \in Issued
              /\ fetchState[result[c]] = "rejected"
              /\ (result[c] = c /\ calls[c].did = "fetch") \/ calls[c].joined = result[c]
    /\ \A c \in Issued :
          calls[c].did \in {"serve", "background"} => status[c] = "resolved"

\* A fetch rejected, its caller and a joiner rejected with its error, and a
\* call made after it settled completed with its own fetch's value.
C10_Witness ==
    \E f \in Issued, c \in Issued, d \in Issued :
        /\ calls[f].did = "fetch" /\ fetchState[f] = "rejected"
        /\ status[f] = "rejected" /\ result[f] = f
        /\ calls[c].joined = f /\ status[c] = "rejected" /\ result[c] = f
        /\ SameEntry(f, d) /\ MadeAfterSettled(f, d)
        /\ status[d] = "resolved" /\ result[d] = d

(***************************************************************************)
(* C11  Background failure, as the claim states it: when a background      *)
(* fetch started by a stale-while-revalidate call rejects, no cacheable    *)
(* call rejects with its error, and the entry keeps the value stored       *)
(* before the attempt (no fetch having resolved on it since).              *)
(***************************************************************************)
\* Fetch f was started, unawaited, by a stale-while-revalidate call and rejected.
BackgroundRejected(f) ==
    f \in Issued /\ calls[f].did = "background" /\ fetchState[f] = "rejected"

\* The entry of a rejected background fetch keeps the value stored before
\* the attempt while no other fetch has resolved on it.
BackgroundKeepsValue ==
    \A f \in Issued :
        LET e == calls[f].entry IN
        (BackgroundRejected(f) /\ lastResolved[e] = calls[f].sawResolved) =>
            (initialized[e] /\ value[e] = calls[f].sawValue)

C11_BackgroundFailureSilent ==
    /\ \A f \in Issued, c \in Issued :
          BackgroundRejected(f) => ~(status[c] = "rejected" /\ result[c] = f)
    /\ BackgroundKeepsValue

(***************************************************************************)
(* C11, amended: when a background fetch started by a                      *)
(* stale-while-revalidate call rejects, the stale-while-revalidate caller  *)
(* has already returned the stored value and does not reject, and no call  *)
(* that did not join the fetch rejects with its error; the                 *)
(* network-only-non-concurrent and max-age calls that joined it while it   *)
(* was pending reject with its error; the entry keeps the value stored     *)
(* before the attempt.                                                     *)
(***************************************************************************)
C11_BackgroundFailureJoiners ==
    /\ \A f \in Issued :
          BackgroundRejected(f) =>
              /\ status[f] = "resolved" /\ result[f] = calls[f].sawValue
              /\ \A c \in Issued :
                    (status[c] = "rejected" /\ result[c] = f) <=> calls[c].joined = f
              /\ \A c \in Issued :
                    calls[c].joined = f =>
                        calls[c].policy \in {"network-only-non-concurrent", "max-age"}
    /\ BackgroundKeepsValue

\* A background fetch rejected: its stale-while-revalidate caller had
\* returned the stored value, a caller that joined it rejected with its
\* error, and the entry still holds the old value.
C11_Witness ==
    \E f \in Issued, c \in Issued :
        /\ BackgroundRejected(f)
        /\ status[f] = "resolved" /\ result[f] = calls[f].sawValue
        /\ calls[f].sawValue # Undefined
        /\ calls[c].joined = f /\ status[c] = "rejected" /\ result[c] = f
        /\ value[calls[f].entry] = calls[f].sawValue

(***************************************************************************)
(* C12  Network-only calls are independent.  Every network-only call       *)
(* invokes its own fetch function, also while other fetches are in flight  *)
(* on its entry, stays pending while its own fetch is pending, and         *)
(* completes with the value or the error of its own fetch, in whatever     *)
(* order the concurrent fetches settle.                                    *)
(***************************************************************************)
IsNetworkOnly(c) == calls[c].policy = "network-only"

C12_NetworkOnlyIndependent ==
    \A c \in Issued :
        IsNetworkOnly(c) =>
            /\ calls[c].did = "fetch" /\ calls[c].joined = 0
            /\ fetchState[c] = "pending" => status[c] = "pending"
            /\ fetchState[c] = "resolved" => (status[c] = "resolved" /\ result[c] = c)
            /\ fetchState[c] = "rejected" => (status[c] = "rejected" /\ result[c] = c)

\* Two network-only calls were in flight together on an initialized entry;
\* the later one resolved first (the stored value is the earlier one's) and
\* each caller received the value of its own fetch.
C12_Witness ==
    \E c \in Issued, d \in Issued :
        /\ c < d /\ SameEntry(c, d) /\ IsNetworkOnly(c) /\ IsNetworkOnly(d)
        /\ OnInitialized(c) /\ c \in calls[d].sawPending
        /\ status[c] = "resolved" /\ result[c] = c
        /\ status[d] = "resolved" /\ result[d] = d
        /\ value[calls[c].entry] = c

(***************************************************************************)
(* C13  A caller that joined a pending fetch F (a                          *)
(* network-only-non-concurrent call, an expired max-age call, or a call on *)
(* an uninitialized entry) does not invoke its own fetch function, waits   *)
(* while F is pending, and when F resolves returns F's value, also when    *)
(* network-only fetches start or settle on the entry while it waits.       *)
(***************************************************************************)
Joined(c) == calls[c].did = "join"

C13_JoinerGetsJoinedValue ==
    \A c \in Issued :
        Joined(c) =>
            LET f == calls[c].joined IN
            /\ f \in calls[c].sawPending /\ SameEntry(f, c)
            /\ ~Invoked(c) /\ fetchState[c] = "none"
            /\ fetchState[f] = "pending" => status[c] = "pending"
            /\ fetchState[f] = "resolved" => (status[c] = "resolved" /\ result[c] = f)

\* Call c joined fetch f; a network-only fetch started while c was waiting
\* and resolved before f did; c returned f's value.
C13_Witness ==
    \E c \in Issued, g \in Issued :
        LET f == calls[c].joined IN
        /\ Joined(c) /\ c < g /\ SameEntry(c, g) /\ IsNetworkOnly(g)
        /\ f \in calls[g].sawPending
        /\ fetchState[g] = "resolved" /\ fetchState[f] = "resolved"
        /\ value[calls[c].entry] = f
        /\ status[c] = "resolved" /\ result[c] = f

(***************************************************************************)
(* C14  While any fetch started on an entry is pending, a                  *)
(* network-only-non-concurrent call on that entry joins a pending fetch    *)
(* and does not invoke its own fetch function, and a max-age call on it    *)
(* does not invoke its own fetch function either (it joins a pending fetch *)
(* or is served from the cache), whichever policies started the pending    *)
(* fetches.                                                                *)
(***************************************************************************)
C14_NeverSecondFetch ==
    \A c \in Issued :
        (/\ calls[c].policy \in {"network-only-non-concurrent", "max-age"}
         /\ calls[c].entry # 0 /\ calls[c].sawPending # {}) =>
            /\ ~Invoked(c)
            /\ IsNonConcurrent(c) => calls[c].joined \in calls[c].sawPending

(***************************************************************************)
(* C15  Max-age during a pending request.  A max-age call issued on an     *)
(* initialized entry while a fetch started on the entry is pending waits   *)
(* for a pending fetch (it joins it and does not complete at once) rather  *)
(* than returning the previously cached value.                             *)
(***************************************************************************)
C15_MaxAgeStep ==
    \A k \in Keys, o \in CacheableOptions :
        LET e == cacheables[k]
            c == nCalls + 1
        IN  (/\ Call(k, o)
             /\ o.cachePolicy = "max-age" /\ o.maxAge \in MaxAges
             /\ e # 0 /\ initialized[e] /\ PendingOn(e) # {}) =>
               /\ calls'[c].did = "join" /\ calls'[c].joined \in PendingOn(e)
               /\ status'[c] = "pending"

C15_MaxAgeWaitsForPending == [][C15_MaxAgeStep]_vars

(***************************************************************************)
(* C16  Deletion resets state.  The first call for a key after             *)
(* delete(key), like the first call for a key never seen, creates a new    *)
(* entry with hit counter 0, no stored value and no fetch in flight, and   *)
(* invokes its fetch function, whatever its policy and whatever state the  *)
(* deleted entry was in; it completes with the outcome of its own fetch,   *)
(* also when a fetch started on the deleted entry settles meanwhile, and   *)
(* the new entry counts only the hits of the calls made on it.             *)
(***************************************************************************)
\* Call c was issued for a key that an earlier call had been issued for, and
\* found no entry: the key had been deleted.
AfterDelete(c) ==
    /\ CreatedEntry(c)
    /\ \E g \in Issued : g < c /\ calls[g].key = calls[c].key /\ calls[g].entry # 0

C16_FreshCallStep ==
    \A k \in Keys, o \in CacheableOptions :
        LET c == nCalls + 1 IN
        (Call(k, o) /\ k \notin called) =>
            /\ cacheables'[k] = c /\ calls'[c].entry = c
            /\ calls'[c].did = "fetch" /\ calls'[c].sawPending = {}
            /\ fetchState'[c] = "pending" /\ status'[c] = "pending"
            /\ hits'[c] = 0 /\ ~initialized'[c] /\ value'[c] = Undefined

C16_FreshOutcome ==
    \A c \in Issued :
        AfterDelete(c) =>
            /\ ~calls[c].sawInit /\ calls[c].sawValue = Undefined
            /\ calls[c].did = "fetch"
            /\ fetchState[c] = "resolved" => (status[c] = "resolved" /\ result[c] = c)
            /\ fetchState[c] = "rejected" => (status[c] = "rejected" /\ result[c] = c)
            /\ hits[c] <= Cardinality({d \in Issued : d # c /\ calls[d].entry = c})

C16_DeleteResets == [][C16_FreshCallStep]_vars /\ []C16_FreshOutcome

\* An initialized entry with a fetch in flight was deleted; the next call
\* for the key, a cache-only call, invoked its fetch function and returned
\* the fresh value while the deleted entry's fetch was still pending.
C16_Witness ==
    \E g \in Issued, c \in Issued :
        /\ AfterDelete(c) /\ calls[g].key = calls[c].key /\ g < c
        /\ calls[g].entry # 0 /\ initialized[calls[g].entry]
        /\ fetchState[g] = "pending"
        /\ calls[c].policy = "cache-only"
        /\ status[c] = "resolved" /\ result[c] = c /\ hits[c] = 0

(***************************************************************************)
(* C17  clear() removes all entries.  From clear() until the next call     *)
(* with caching enabled, keys() is empty and isCached(k) is false for      *)
(* every key k, also when fetches started on the removed entries settle;   *)
(* the next call for any key creates a new entry and invokes its fetch     *)
(* function, whatever its policy.                                          *)
(***************************************************************************)
C17_ClearedEmpty ==
    cleared => (KeysOf = {} /\ \A k \in Keys : ~IsCached(k))

C17_AfterClearStep ==
    \A k \in Keys, o \in CacheableOptions :
        LET c == nCalls + 1 IN
        (Call(k, o) /\ cleared) =>
            /\ KeysOf' = {k} /\ calls'[c].entry = c
            /\ calls'[c].did = "fetch" /\ fetchState'[c] = "pending"
            /\ hits'[c] = 0 /\ ~initialized'[c] /\ value'[c] = Undefined

C17_ClearRemovesAll == []C17_ClearedEmpty /\ [][C17_AfterClearStep]_vars

\* clear() ran on a registry that held an initialized entry for each key, one
\* of them with a fetch in flight; the registry is empty.
C17_Witness ==
    \E g \in Issued, h \in Issued :
        /\ cleared /\ KeysOf = {}
        /\ calls[g].key = "a" /\ calls[h].key = "b"
        /\ calls[g].entry # 0 /\ calls[h].entry # 0
        /\ initialized[calls[g].entry] /\ initialized[calls[h].entry]
        /\ \E f \in Issued : calls[f].entry # 0 /\ fetchState[f] = "pending"

(***************************************************************************)
(* C18  In every reachable state, isCached(key) is true iff the registry   *)
(* holds an entry for key iff key is in keys(); the entry of a key was     *)
(* created by a call for that key and no two keys share an entry; keys()   *)
(* is exactly the set of keys for which a call with caching enabled was    *)
(* made since the key was last deleted or cleared.                         *)
(***************************************************************************)
C18_KeysExact ==
    /\ \A k \in Keys :
          /\ IsCached(k) <=> cacheables[k] # 0
          /\ IsCached(k) <=> k \in KeysOf
          /\ cacheables[k] # 0 =>
                /\ cacheables[k] \in Issued
                /\ CreatedEntry(cacheables[k])
                /\ calls[cacheables[k]].key = k
    /\ \A k \in Keys, l \in Keys :
          (k # l /\ cacheables[k] # 0) => cacheables[k] # cacheables[l]
    /\ KeysOf = called

\* Key "a" was called, deleted, and then called with caching disabled; key
\* "b" was called with caching enabled: keys() is exactly {"b"}, and the
\* entry of "b" holds no value yet.
C18_Witness ==
    \E g \in Issued, d \in Issued, h \in Issued :
        /\ g < d /\ calls[g].key = "a" /\ calls[g].entry # 0
        /\ calls[d].key = "a" /\ calls[d].entry = 0
        /\ calls[h].key = "b" /\ cacheables["b"] = h /\ ~initialized[h]
        /\ KeysOf = {"b"} /\ IsCached("b") /\ ~IsCached("a")

(***************************************************************************)
(* C19  Caching disabled.  A call made while enabled is false invokes its  *)
(* fetch function, stays pending until that fetch settles and completes    *)
(* with its value or error; neither the call nor the settlement of its     *)
(* fetch changes the registry, or the stored value, hit counter, timestamp *)
(* or flags of any entry.  So a value cached before disabling is served    *)
(* again after re-enabling, and a key called only while disabled has no    *)
(* entry: its first enabled call invokes its fetch function.               *)
(***************************************************************************)
\* Call c was made with caching disabled.
Bypassed(c) == c \in Issued /\ calls[c].entry = 0

RegistryState == <<cacheables, hits, lastFetch, initialized, promise, value>>

C19_DisabledStep ==
    /\ \A k \in Keys, o \in CacheableOptions :
          CallDisabled(k, o) =>
              /\ UNCHANGED RegistryState
              /\ fetchState'[nCalls + 1] = "pending" /\ status'[nCalls + 1] = "pending"
    /\ \A f \in Ids :
          (Bypassed(f) /\ fetchState'[f] # fetchState[f]) => UNCHANGED RegistryState

C19_DisabledOutcome ==
    /\ \A c \in Issued :
          Bypassed(c) =>
              /\ calls[c].did = "fetch" /\ fetchState[c] # "none"
              /\ fetchState[c] = "pending" => status[c] = "pending"
              /\ fetchState[c] = "resolved" => (status[c] = "resolved" /\ result[c] = c)
              /\ fetchState[c] = "rejected" => (status[c] = "rejected" /\ result[c] = c)
    /\ \A c \in Issued :
          (/\ ~Bypassed(c)
           /\ \A g \in Issued : (g < c /\ calls[g].key = calls[c].key) => Bypassed(g)) =>
              (CreatedEntry(c) /\ calls[c].did = "fetch")
    /\ \A k \in Keys : cacheables[k] # 0 => ~Bypassed(cacheables[k])

C19_DisabledBypasses == [][C19_DisabledStep]_vars /\ []C19_DisabledOutcome

\* A value was cached for a key; with caching disabled a call for the key
\* returned the value of its own fetch; after re-enabling, a cache-only call
\* was served the value cached before.
C19_Witness ==
    \E g \in Issued, d \in Issued, c \in Issued :
        /\ g < d /\ d < c
        /\ calls[g].key = calls[d].key /\ calls[d].key = calls[c].key
        /\ calls[g].entry = g /\ fetchState[g] = "resolved"
        /\ Bypassed(d) /\ status[d] = "resolved" /\ result[d] = d
        /\ calls[c].entry = g /\ calls[c].policy = "cache-only"
        /\ calls[c].did = "serve" /\ result[c] = g /\ value[g] = g /\ hits[g] = 1

(***************************************************************************)
(* C20  Misconfiguration fails fast.  A call with cachePolicy max-age and  *)
(* no maxAge rejects at once, on an initialized as well as on an           *)
(* uninitialized entry: it neither returns a value nor invokes its fetch   *)
(* function.                                                               *)
(***************************************************************************)
C20_MisconfiguredStep ==
    \A k \in Keys, o \in CacheableOptions :
        LET c == nCalls + 1 IN
        (Call(k, o) /\ o.cachePolicy = "max-age" /\ o.maxAge = NoMaxAge) =>
            (status'[c] = "rejected" /\ fetchState'[c] = "none")

C20_MaxAgeWithoutMaxAgeRejects == [][C20_MisconfiguredStep]_vars

(***************************************************************************)
(* C21  A fetch that rejects leaves the entry's timestamp as it was before *)
(* the attempt.  When the latest fetch started on an initialized entry     *)
(* rejects, #lastFetch is again what it was before that fetch started; so  *)
(* after the failed refresh, with no fetch in flight, a max-age call whose *)
(* maxAge had run out before the attempt invokes its fetch function        *)
(* instead of being served the old value.                                  *)
(***************************************************************************)
\* Fetch f is the latest fetch started on its entry.
LatestStarted(f) ==
    \A g \in Issued : (SameEntry(f, g) /\ Invoked(g)) => g <= f

C21_RejectRestoresStep ==
    \A f \in Ids :
        LET e == calls[f].entry IN
        (/\ fetchState[f] = "pending" /\ fetchState'[f] = "rejected"
         /\ OnInitialized(f) /\ LatestStarted(f)) =>
            lastFetch'[e] = lastFetchBefore[e]

C21_StillExpiredStep ==
    \A k \in Keys, o \in CacheableOptions :
        LET e == cacheables[k]
            c == nCalls + 1
            f == lastEvent[e].id
        IN  (/\ Call(k, o)
             /\ o.cachePolicy = "max-age" /\ o.maxAge \in MaxAges
             /\ e # 0 /\ initialized[e] /\ PendingOn(e) = {}
             /\ lastEvent[e].kind = "reject" /\ OnInitialized(f) /\ LatestStarted(f)
             /\ now > lastFetchBefore[e] + o.maxAge) =>
               (calls'[c].did = "fetch" /\ status'[c] = "pending")

C21_RejectKeepsTimestamp ==
    [][C21_RejectRestoresStep /\ C21_StillExpiredStep]_vars

(***************************************************************************)
(* C22  The age of an entry is measured from the start of its most recent  *)
(* fetch.  #lastFetch is the time at which the latest fetch on the entry   *)
(* started, and is not touched when a fetch resolves; a max-age call on an *)
(* initialized entry is served from the cache iff the current time is not  *)
(* later than that start time plus maxAge, however long the fetch took.    *)
(***************************************************************************)
C22_AgeFromStartStep ==
    /\ \A c \in Ids :
          (fetchState[c] = "none" /\ fetchState'[c] = "pending" /\ calls'[c].entry # 0)
            => lastFetch'[calls'[c].entry] = now
    /\ \A f \in Ids :
          (fetchState[f] = "pending" /\ fetchState'[f] = "resolved") =>
              lastFetch' = lastFetch
    /\ \A k \in Keys, o \in CacheableOptions :
          LET e == cacheables[k]
              c == nCalls + 1
          IN  (/\ Call(k, o)
               /\ o.cachePolicy = "max-age" /\ o.maxAge \in MaxAges
               /\ e # 0 /\ initialized[e]) =>
                 /\ calls'[c].did = "serve" <=> now <= lastFetch[e] + o.maxAge
                 /\ calls'[c].did = "serve" =>
                       (status'[c] = "resolved" /\ result'[c] = value[e])

C22_AgeFromStart == [][C22_AgeFromStartStep]_vars

\* The only fetch of an entry took longer than the largest maxAge: its value
\* has just been stored and is already expired.
C22_Witness ==
    \E f \in Issued :
        LET e == calls[f].entry IN
        /\ CreatedEntry(f) /\ LatestStarted(f)
        /\ lastEvent[e] = [kind |-> "resolve", id |-> f]
        /\ initialized[e] /\ value[e] = f
        /\ now > lastFetch[e] + MaxAge

(***************************************************************************)
(* C23  No automatic retry.  A fetch function is invoked only by the       *)
(* cacheable call it was passed to, in the step that issues the call, and  *)
(* at most once: once it has settled it is never in flight again.  When a  *)
(* fetch rejects, no fetch function is invoked: the fetches in flight      *)
(* afterwards are those in flight before, less the one that rejected.      *)
(***************************************************************************)
InFlight == {c \in Ids : fetchState[c] = "pending"}

C23_NoRetryStep ==
    /\ \A c \in Ids :
          (fetchState[c] # "pending" /\ fetchState'[c] = "pending") =>
              (fetchState[c] = "none" /\ c = nCalls + 1 /\ nCalls' = c)
    /\ \A c \in Ids :
          fetchState[c] \in {"resolved", "rejected"} => fetchState'[c] = fetchState[c]
    /\ \A f \in Ids :
          Settle(f, FALSE) => InFlight' = InFlight \ {f}

C23_NoRetry == [][C23_NoRetryStep]_vars

\* A fetch and the caller that joined it were rejected, nothing is in
\* flight, and the fetch function of the joiner was never invoked.
C23_Witness ==
    \E f \in Issued, c \in Issued :
        /\ fetchState[f] = "rejected" /\ status[f] = "rejected"
        /\ calls[c].joined = f /\ status[c] = "rejected" /\ fetchState[c] = "none"
        /\ InFlight = {}

(***************************************************************************)
(* C24  Hit accounting.  In every reachable state the hit counter of an    *)
(* entry equals the number of calls on that entry that returned a value    *)
(* without awaiting a fetch of their own: the calls served from the cache  *)
(* (cache-only, unexpired max-age, stale-while-revalidate) and the calls   *)
(* that joined a fetch that resolved.  Calls that await their own fetch    *)
(* and calls that reject are not counted, and no step decreases a counter. *)
(***************************************************************************)
\* Call c logged a hit on its entry.
LoggedHit(c) ==
    \/ calls[c].did \in {"serve", "background"}
    \/ calls[c].did = "join" /\ status[c] = "resolved"

HitsOf(e) == Cardinality({c \in Issued : calls[c].entry = e /\ LoggedHit(c)})

C24_HitsCounted == \A e \in Ids : hits[e] = HitsOf(e)

C24_HitsMonotoneStep == \A e \in Ids : hits'[e] >= hits[e]

C24_HitAccounting == []C24_HitsCounted /\ [][C24_HitsMonotoneStep]_vars

\* An entry with two hits: a call that joined the first fetch, which
\* resolved, and a stale-while-revalidate call that started a background
\* fetch; the call that awaited the first fetch was not counted.
C24_Witness ==
    \E f \in Issued, c \in Issued, d \in Issued :
        /\ CreatedEntry(f) /\ status[f] = "resolved"
        /\ calls[c].joined = f /\ status[c] = "resolved"
        /\ calls[d].entry = f /\ calls[d].did = "background"
        /\ hits[f] = 2

(***************************************************************************)
(* C25  Keys are independent.  A call for key a, the settlement of a fetch *)
(* started by a call for key a, and delete(a) leave the registry slot of   *)
(* every other key b and the value, hit counter, timestamp, initialized    *)
(* flag, handle and pending fetches of b's entry as they were; a call      *)
(* never joins a fetch started for another key and never returns the       *)
(* value or error of one.                                                  *)
(***************************************************************************)
\* The registry slot of key b and the state of the entry in it.
EntryStateOf(b) ==
    LET e == cacheables[b] IN
    IF e = 0 THEN <<0>>
    ELSE <<e, value[e], hits[e], lastFetch[e], initialized[e], promise[e], PendingOn(e)>>

C25_OtherKeyStep ==
    \A a \in Keys, b \in Keys :
        a # b =>
            /\ (\E o \in CacheableOptions : Call(a, o)) => EntryStateOf(b)' = EntryStateOf(b)
            /\ Delete(a) => EntryStateOf(b)' = EntryStateOf(b)
            /\ \A f \in Issued, ok \in BOOLEAN :
                  (Settle(f, ok) /\ calls[f].key = a) => EntryStateOf(b)' = EntryStateOf(b)

C25_NoCrossKey ==
    \A c \in Issued :
        /\ calls[c].entry # 0 => calls[calls[c].entry].key = calls[c].key
        /\ calls[c].joined # 0 => calls[calls[c].joined].key = calls[c].key
        /\ (status[c] \in {"resolved", "rejected"} /\ result[c] # Undefined) =>
              calls[result[c]].key = calls[c].key

C25_KeysIndependent == [][C25_OtherKeyStep]_vars /\ []C25_NoCrossKey

\* A value was fetched for key "a" and the key deleted; key "b" holds the
\* value of its own fetch, and a cache-only call for "b" was served it.
C25_Witness ==
    \E g \in Issued, h \in Issued, c \in Issued :
        /\ calls[g].key = "a" /\ CreatedEntry(g) /\ fetchState[g] = "resolved"
        /\ cacheables["a"] = 0
        /\ calls[h].key = "b" /\ cacheables["b"] = h /\ value[h] = h
        /\ c # h /\ calls[c].key = "b" /\ calls[c].entry = h
        /\ calls[c].did = "serve" /\ result[c] = h /\ hits[h] = 1

(***************************************************************************)
(* C26  Cacheables.key(p1, ..., pn) returns the parts, each rendered as a  *)
(* string, joined in order with the delimiter ':': the result consists of  *)
(* the rendering of p1, then for each further part a ':' followed by its   *)
(* rendering, and nothing else; a string part is rendered as itself and a  *)
(* number as its decimal numeral; key('user', 5, 'profile') is             *)
(* 'user:5:profile', and key() is the empty string.                        *)
(***************************************************************************)
Digits == {"0", "1", "2", "3", "4", "5", "6", "7", "8", "9"}

\* The number a decimal numeral denotes.
RECURSIVE DecimalValue(_)
DecimalValue(d) ==
    IF d = <<>> THEN 0
    ELSE LET last == d[Len(d)]
             v == CHOOSE n \in 0..9 : NumberToString(n) = <<last>>
         IN  10 * DecimalValue(SubSeq(d, 1, Len(d) - 1)) + v

\* Where the rendering of part i starts in the result: after the renderings
\* of the parts before it and one delimiter for each.
RECURSIVE OffsetOfPart(_, _)
OffsetOfPart(args, i) ==
    IF i = 1 THEN 0
    ELSE OffsetOfPart(args, i - 1) + Len(ToString(args[i - 1])) + 1

UserFiveProfile ==
    <<StringPart(<<"u", "s", "e", "r">>), NumberPart(5),
      StringPart(<<"p", "r", "o", "f", "i", "l", "e">>)>>

C26_KeyJoinsParts ==
    keyResult # NotCalled =>
        LET n == Len(keyArgs)
            R(i) == ToString(keyArgs[i])
            At(i) == OffsetOfPart(keyArgs, i)
        IN  /\ n = 0 => keyResult = <<>>
            /\ n > 0 => Len(keyResult) = At(n) + Len(R(n))
            /\ \A i \in 1..n :
                  /\ SubSeq(keyResult, At(i) + 1, At(i) + Len(R(i))) = R(i)
                  /\ i < n => keyResult[At(i) + Len(R(i)) + 1] = ":"
                  /\ ~keyArgs[i].isNumber => R(i) = keyArgs[i].chars
                  /\ keyArgs[i].isNumber =>
                        /\ Len(R(i)) >= 1
                        /\ \A j \in 1..Len(R(i)) : R(i)[j] \in Digits
                        /\ Len(R(i)) > 1 => R(i)[1] # "0"
                        /\ DecimalValue(R(i)) = keyArgs[i].num
            /\ keyArgs = UserFiveProfile =>
                  keyResult = <<"u", "s", "e", "r", ":", "5", ":",
                                "p", "r", "o", "f", "i", "l", "e">>

\* key('user', 5, 'profile') has returned 'user:5:profile'.
C26_Witness ==
    /\ keyArgs = UserFiveProfile
    /\ keyResult = <<"u", "s", "e", "r", ":", "5", ":", "p", "r", "o", "f", "i", "l", "e">>

(***************************************************************************)
(* C27.  In the variant src/index.ts, isCached(key, maxAge) answers false  *)
(* when no object is registered for key, true when one is registered and   *)
(* maxAge is omitted, false when maxAge is 0, and otherwise true exactly   *)
(* when the current time is not later than the start of the last fetch on  *)
(* that object plus maxAge; the call changes neither the registry nor any  *)
(* object, so a key whose value has expired stays in keys().               *)
(***************************************************************************)
\* The calls that started a fetch on object o.
FetchesOn(o) == {t \in 1..nTouches : touches[t].on = o /\ touches[t].did \in {"create", "miss", "fetch"}}

\* The time at which the last fetch on object o started.
StartOfLastFetch(o) ==
    touches[CHOOSE t \in FetchesOn(o) : \A u \in FetchesOn(o) : u <= t].at

C27_Answer(k, maxAge) ==
    IF registry[k] = 0 THEN FALSE
    ELSE IF maxAge = NoMaxAge THEN TRUE
    ELSE IF maxAge = 0 THEN FALSE
    ELSE now <= StartOfLastFetch(registry[k]) + maxAge

C27_IsCachedStep ==
    \A k \in Keys, m \in IndexMaxAges :
        AskIsCached(k, m) =>
            /\ asked'.answer = C27_Answer(k, m)
            /\ registry' = registry
            /\ objects' = objects
            /\ touches' = touches
            /\ IndexKeys' = IndexKeys
            /\ registry[k] # 0 => k \in IndexKeys'

C27_IsCachedMaxAge == [][C27_IsCachedStep]_vars

\* isCached has just answered false for a registered key whose value is
\* older than the maxAge asked about, and the key is still in keys().
C27_Witness ==
    /\ asked.made
    /\ asked.maxAge \in MaxAges
    /\ ~asked.answer
    /\ registry[asked.key] # 0
    /\ asked.key \in IndexKeys
    /\ now > StartOfLastFetch(registry[asked.key]) + asked.maxAge
    /\ IndexIsCached(asked.key, NoMaxAge)

(***************************************************************************)
(* C28.  The boundary of max-age.  On an initialized entry with no fetch   *)
(* pending, a max-age call issued when the time elapsed since the start of *)
(* the last fetch equals maxAge is served the stored value: it logs a hit, *)
(* invokes no fetch function and leaves #lastFetch alone.  The value       *)
(* expires only when the elapsed time exceeds maxAge: one time unit later  *)
(* the same call starts a fetch.                                           *)
(***************************************************************************)
\* A max-age call with a maxAge, on the initialized entry e of key k with
\* no fetch pending, issued when the value is of the given age.
C28_CallAtAge(k, o, age) ==
    LET e == cacheables[k] IN
    /\ Call(k, o)
    /\ o.cachePolicy = "max-age" /\ o.maxAge \in MaxAges
    /\ e # 0 /\ initialized[e] /\ PendingOn(e) = {}
    /\ now - lastFetch[e] = age

\* The statement with expiry at elapsed >= maxAge: a call at the boundary
\* starts a fetch.
C28_BoundaryExpiredStep ==
    \A k \in Keys, o \in CacheableOptions :
        LET c == nCalls + 1 IN
        (o.maxAge \in MaxAges /\ C28_CallAtAge(k, o, o.maxAge)) =>
            /\ calls'[c].did = "fetch"
            /\ fetchState'[c] = "pending"

C28_BoundaryExpired == [][C28_BoundaryExpiredStep]_vars

C28_BoundaryServedStep ==
    \A k \in Keys, o \in CacheableOptions :
        LET e == cacheables[k]
            c == nCalls + 1
        IN  /\ (o.maxAge \in MaxAges /\ C28_CallAtAge(k, o, o.maxAge)) =>
                  /\ calls'[c].did = "serve" /\ fetchState'[c] = "none"
                  /\ status'[c] = "resolved" /\ result'[c] = value[e]
                  /\ hits'[e] = hits[e] + 1
                  /\ lastFetch'[e] = lastFetch[e]
            /\ (o.maxAge \in MaxAges /\ C28_CallAtAge(k, o, o.maxAge + 1)) =>
                  /\ calls'[c].did = "fetch" /\ fetchState'[c] = "pending"
                  /\ hits'[e] = hits[e]
                  /\ lastFetch'[e] = now

C28_BoundaryServed == [][C28_BoundaryServedStep]_vars

\* The latest call is a max-age call issued on an initialized entry with no
\* fetch pending exactly maxAge after the start of the last fetch, and it
\* was served the stored value.
C28_Witness ==
    \E c \in Issued :
        /\ c = nCalls
        /\ calls[c].policy = "max-age" /\ lastCall.maxAge \in MaxAges
        /\ OnInitialized(c) /\ calls[c].sawPending = {}
        /\ lastCall.at = lastFetch[calls[c].entry] + lastCall.maxAge
        /\ calls[c].did = "serve"
        /\ status[c] = "resolved" /\ result[c] = calls[c].sawValue
        /\ calls[c].sawValue # Undefined

(***************************************************************************)
(* C29.  The handle of an entry (#promise) is present exactly while some   *)
(* fetch started on that entry has not settled; with several network-only  *)
(* fetches pending on one entry, the settlement of one of them leaves the  *)
(* handle in place while another is still pending.                         *)
(***************************************************************************)
C29_HandleIffPending ==
    \A e \in Ids : IsFetching(e) <=> PendingOn(e) # {}

(***************************************************************************)
(* C30.  One stored value per key, shared by all policies.  The stored     *)
(* value of an initialized entry is the result of the fetch on that entry  *)
(* that resolved most recently, whichever policy started it, and it is     *)
(* what a cache-only call returns; when fetches overlap, the one that      *)
(* settles last sets the value, even if it started first.                  *)
(***************************************************************************)
C30_StoredIsLastResolved ==
    \A e \in Ids :
        initialized[e] =>
            /\ lastResolved[e] \in Issued
            /\ calls[lastResolved[e]].entry = e
            /\ fetchState[lastResolved[e]] = "resolved"
            /\ value[e] = lastResolved[e]

C30_ResolveStep ==
    \A f \in Ids :
        (Settle(f, TRUE) /\ calls[f].entry # 0) =>
            /\ value'[calls[f].entry] = f
            /\ \A e \in Ids : e # calls[f].entry => value'[e] = value[e]

C30_CacheOnlyStep ==
    \A k \in Keys, o \in CacheableOptions :
        LET e == cacheables[k]
            c == nCalls + 1
        IN  (Call(k, o) /\ o.cachePolicy \in {"cache-only", "none"} /\ e # 0 /\ initialized[e]) =>
                /\ status'[c] = "resolved"
                /\ result'[c] = lastResolved[e]
                /\ value' = value

C30_LastToSettleWins ==
    []C30_StoredIsLastResolved /\ [][C30_ResolveStep /\ C30_CacheOnlyStep]_vars

\* Two fetches overlapped on one entry; the one that started later (a
\* network-only call) resolved first, the one that started first resolved
\* last, and a cache-only call made afterwards returned the result of the
\* fetch that started first.
C30_Witness ==
    \E f \in Issued, g \in Issued, c \in Issued :
        /\ f < g /\ g < c /\ SameEntry(f, g) /\ SameEntry(f, c)
        /\ calls[g].policy = "network-only" /\ calls[g].did = "fetch"
        /\ calls[f].did = "fetch" /\ f \in calls[g].sawPending
        /\ fetchState[f] = "resolved" /\ fetchState[g] = "resolved"
        /\ lastResolved[calls[f].entry] = f
        /\ value[calls[f].entry] = f
        /\ calls[c].policy = "cache-only" /\ calls[c].did = "serve"
        /\ calls[c].sawResolved = f
        /\ status[c] = "resolved" /\ result[c] = f

(***************************************************************************)
(* C31.  An entry becomes initialized exactly once, at the settlement of   *)
(* the first fetch on it that resolves: it is initialized exactly when     *)
(* some fetch on it has resolved, a rejection never initializes it, and an *)
(* initialized entry never becomes uninitialized again.                    *)
(***************************************************************************)
\* The fetches on entry e that have resolved.
ResolvedOn(e) == {f \in Issued : calls[f].entry = e /\ fetchState[f] = "resolved"}

C31_InitializedIffResolved ==
    \A e \in Ids : initialized[e] <=> ResolvedOn(e) # {}

C31_TransitionStep ==
    \A e \in Ids :
        /\ initialized[e] => initialized'[e]
        /\ (~initialized[e] /\ initialized'[e]) =>
              \E f \in Ids :
                  /\ Settle(f, TRUE) /\ calls[f].entry = e
                  /\ ResolvedOn(e) = {}
        /\ \A f \in Ids :
              (Settle(f, FALSE) /\ calls[f].entry = e) => initialized'[e] = initialized[e]

C31_InitializedOnce == []C31_InitializedIffResolved /\ [][C31_TransitionStep]_vars

\* On one entry a first fetch rejected and left the entry uninitialized, a
\* second resolved and initialized it, and a third, started on the
\* initialized entry, rejected and left it initialized.
C31_Witness ==
    \E f \in Issued, g \in Issued, h \in Issued :
        LET e == calls[f].entry IN
        /\ f < g /\ g < h /\ SameEntry(f, g) /\ SameEntry(f, h)
        /\ fetchState[f] = "rejected" /\ fetchState[g] = "resolved"
        /\ fetchState[h] = "rejected"
        /\ calls[g].sawEvent = [kind |-> "reject", id |-> f] /\ ~calls[g].sawInit
        /\ calls[h].sawInit
        /\ lastEvent[e] = [kind |-> "reject", id |-> h]
        /\ initialized[e]

(***************************************************************************)
(* C32.  No timeout on joins.  A caller that joined a pending fetch does   *)
(* not complete before that fetch settles; while a fetch on an entry has   *)
(* not settled the handle of the entry stays populated, and every          *)
(* network-only-non-concurrent call issued on the entry meanwhile joins    *)
(* and does not complete while that fetch is pending; cache-only and       *)
(* stale-while-revalidate calls on the initialized entry return at once.   *)
(***************************************************************************)
C32_JoinerWaits ==
    \A c \in Issued :
        (Joined(c) /\ fetchState[calls[c].joined] = "pending") => status[c] = "pending"

C32_LaterCallsStarve ==
    \A f \in Issued, c \in Issued :
        (/\ f < c /\ SameEntry(f, c) /\ Invoked(f)
         /\ f \in calls[c].sawPending /\ IsNonConcurrent(c)) =>
            /\ Joined(c) /\ ~Invoked(c)
            /\ fetchState[f] = "pending" =>
                  (status[c] = "pending" /\ IsFetching(calls[f].entry))

C32_ServedCallsReturn ==
    \A c \in Issued :
        (OnInitialized(c) /\ (IsCacheOnly(c) \/ calls[c].policy = "stale-while-revalidate")) =>
            status[c] = "resolved"

C32_NoTimeoutOnJoins ==
    C32_JoinerWaits /\ C32_LaterCallsStarve /\ C32_ServedCallsReturn

(***************************************************************************)
(* C33.  An entry created by a cacheable call stays in the registry, and   *)
(* its key in keys(), until delete(key) or clear(): no resolved or         *)
(* rejected fetch, no passage of time and no call under any policy removes *)
(* or replaces it.                                                         *)
(***************************************************************************)
C33_EntryStaysStep ==
    \A k \in Keys :
        cacheables[k] # 0 =>
            \/ cacheables'[k] = cacheables[k] /\ k \in KeysOf'
            \/ Delete(k)
            \/ Clear

C33_EntryPersists == [][C33_EntryStaysStep]_vars

\* The entry that the first call created is still registered under its key
\* after a fetch on it resolved, a later fetch on it rejected, three calls
\* were made and its value grew older than every maxAge.
C33_Witness ==
    \E f \in Issued, g \in Issued :
        /\ nCalls = MaxCalls
        /\ cacheables["a"] = 1 /\ "a" \in KeysOf
        /\ calls[f].entry = 1 /\ calls[g].entry = 1
        /\ fetchState[f] = "resolved" /\ fetchState[g] = "rejected"
        /\ calls[g].sawInit
        /\ \A c \in Issued : calls[c].entry = 1
        /\ \A m \in MaxAges : now > lastFetch[1] + m

(***************************************************************************)
(* C34.  No fabricated values.  Every value returned by a call made with   *)
(* caching enabled is the result of a fetch function that was invoked by a *)
(* call for the same key on the same entry and that resolved; no call      *)
(* returns the placeholder an entry holds before its first fetch resolved. *)
(***************************************************************************)
\* Call c, made with caching enabled, returned a value.
Returned(c) == calls[c].entry # 0 /\ status[c] = "resolved"

C34_NoFabricatedValues ==
    \A c \in Issued :
        Returned(c) =>
            /\ result[c] # Undefined
            /\ result[c] \in Issued
            /\ Invoked(result[c])
            /\ fetchState[result[c]] = "resolved"
            /\ calls[result[c]].entry = calls[c].entry
            /\ calls[result[c]].key = calls[c].key
            /\ result[c] <= c

\* A fetch on the key rejected; a later call on the still uninitialized
\* entry fetched and returned its own value, and a call that joined that
\* fetch before the entry held any value returned the same value.
C34_Witness ==
    \E f \in Issued, c \in Issued, d \in Issued :
        /\ f < c /\ c < d /\ SameEntry(f, c) /\ SameEntry(c, d)
        /\ fetchState[f] = "rejected" /\ calls[c].sawEvent = [kind |-> "reject", id |-> f]
        /\ Returned(c) /\ result[c] = c
        /\ Joined(d) /\ calls[d].joined = c /\ ~calls[d].sawInit
        /\ calls[d].sawValue = Undefined
        /\ Returned(d) /\ result[d] = c

(***************************************************************************)
(* C35.  Freshness of max-age.  Whenever a max-age call with maxAge m is   *)
(* served the stored value without fetching or joining, the fetch that     *)
(* produced that value started at most m time units before the call,       *)
(* whatever calls of other policies were made on the key.                  *)
(***************************************************************************)
\* The calls that invoked their fetch function on entry e.
InvokedOn(e) == {f \in Issued : calls[f].entry = e /\ Invoked(f)}

\* The last and the last but one of them (0 when there is none).
LatestOn(e) ==
    IF InvokedOn(e) = {} THEN 0
    ELSE CHOOSE f \in InvokedOn(e) : \A g \in InvokedOn(e) : g <= f

PreviousOn(e) ==
    LET rest == InvokedOn(e) \ {LatestOn(e)} IN
    IF rest = {} THEN 0 ELSE CHOOSE f \in rest : \A g \in rest : g <= f

\* The time at which fetch f on entry e started: #lastFetch holds it for the
\* latest fetch on the entry, and held it for the one before when the latest
\* started.
StartKnown(e, f) == f # 0 /\ f \in {LatestOn(e), PreviousOn(e)}
StartOf(e, f) == IF f = LatestOn(e) THEN lastFetch[e] ELSE lastFetchBefore[e]

C35_FreshStep ==
    \A k \in Keys, o \in CacheableOptions :
        LET e == cacheables[k]
            c == nCalls + 1
        IN  (/\ Call(k, o)
             /\ o.cachePolicy = "max-age" /\ o.maxAge \in MaxAges
             /\ e # 0 /\ initialized[e]
             /\ calls'[c].did = "serve"
             /\ StartKnown(e, lastResolved[e])) =>
                 /\ result'[c] = lastResolved[e]
                 /\ now <= StartOf(e, lastResolved[e]) + o.maxAge

C35_MaxAgeFresh == [][C35_FreshStep]_vars

(***************************************************************************)
(* C36.  A fetch still pending when delete(key) or clear() removes its     *)
(* entry does not affect calls made after the deletion: its settlement     *)
(* changes only the removed entry, so its result is not stored in the      *)
(* entry created afterwards and does not initialize it; calls made after   *)
(* the deletion never join it or return its result; and the callers that   *)
(* were awaiting it receive its own result.                                *)
(***************************************************************************)
\* The entry that fetch f was started on is no longer the entry of its key.
Detached(f) == calls[f].entry # 0 /\ cacheables[calls[f].key] # calls[f].entry

\* The state of entry e.
C36_EntryState(e) ==
    <<value[e], initialized[e], hits[e], lastFetch[e], promise[e], lastResolved[e]>>

C36_DetachedSettleStep ==
    \A f \in Ids, ok \in BOOLEAN :
        (Settle(f, ok) /\ Detached(f)) =>
            /\ \A e \in Ids : e # calls[f].entry => C36_EntryState(e)' = C36_EntryState(e)
            /\ cacheables' = cacheables
            /\ \A c \in Ids :
                  calls[c].entry # calls[f].entry =>
                      (status'[c] = status[c] /\ result'[c] = result[c])
            /\ \A c \in Issued :
                  (/\ status[c] = "pending"
                   /\ \/ c = f /\ calls[f].did = "fetch"
                      \/ Joined(c) /\ calls[c].joined = f) =>
                      /\ status'[c] = IF ok THEN "resolved" ELSE "rejected"
                      /\ result'[c] = f

\* Call c was issued for the key of f after the entry of f was removed.
C36_AfterRemoval(f, c) ==
    /\ f < c /\ calls[f].key = calls[c].key
    /\ calls[f].entry # 0 /\ calls[c].entry # 0
    /\ calls[f].entry # calls[c].entry

C36_LaterCallsApart ==
    \A f \in Issued, c \in Issued :
        C36_AfterRemoval(f, c) =>
            /\ calls[c].joined # f
            /\ status[c] # "none" => result[c] # f
            /\ value[calls[c].entry] # f
            /\ lastResolved[calls[c].entry] # f
            /\ promise[calls[c].entry] # f

C36_DeletedFetchIsolated ==
    []C36_LaterCallsApart /\ [][C36_DetachedSettleStep]_vars

\* Fetch f was pending when its entry was removed and is pending still,
\* with the handle of the removed entry holding it; call c, issued for the
\* key afterwards, created a new entry and fetched; its fetch resolved, and
\* a later call d was served c's value from the new entry.
C36_Witness ==
    \E f \in Issued, c \in Issued, d \in Issued :
        /\ C36_AfterRemoval(f, c) /\ c < d /\ SameEntry(c, d)
        /\ Detached(f) /\ fetchState[f] = "pending" /\ promise[calls[f].entry] = f
        /\ CreatedEntry(c) /\ calls[c].did = "fetch" /\ fetchState[c] = "resolved"
        /\ cacheables[calls[c].key] = calls[c].entry
        /\ value[calls[c].entry] = c /\ initialized[calls[c].entry]
        /\ promise[calls[c].entry] = 0
        /\ calls[d].did = "serve" /\ status[d] = "resolved" /\ result[d] = c

(***************************************************************************)
(* C37.  Without network-only calls, at most one fetch is pending on an    *)
(* entry: when no call issued on an entry used the network-only policy, at *)
(* most one fetch started on that entry is pending, whatever cache-only,   *)
(* network-only-non-concurrent, max-age and stale-while-revalidate calls   *)
(* were made and however their fetches settled.                            *)
(***************************************************************************)
\* No call issued on entry e used the network-only policy.
NoNetworkOnlyOn(e) ==
    \A c \in Issued : calls[c].entry = e => calls[c].policy # "network-only"

C37_OnePendingFetch ==
    \A e \in Ids :
        NoNetworkOnlyOn(e) =>
            /\ Cardinality(PendingOn(e)) <= 1
            /\ PendingOn(e) = IF promise[e] = 0 THEN {} ELSE {promise[e]}

\* Three calls without network-only were issued on one initialized entry:
\* a stale-while-revalidate call started a background fetch, which is the
\* only fetch pending, and a network-only-non-concurrent call joined it.
C37_Witness ==
    \E e \in Ids, g \in Issued, c \in Issued :
        /\ NoNetworkOnlyOn(e) /\ nCalls >= 3
        /\ calls[g].entry = e /\ calls[c].entry = e /\ g < c
        /\ calls[g].policy = "stale-while-revalidate" /\ calls[g].did = "background"
        /\ IsNonConcurrent(c) /\ Joined(c) /\ calls[c].joined = g
        /\ PendingOn(e) = {g} /\ status[c] = "pending"

Completed(c) == status[c] \in {"resolved", "rejected"}

C39_EveryCallCompletes ==
    /\ \A c \in Ids : (status[c] = "pending") ~> Completed(c)
    /\ \A e \in Ids : IsFetching(e) ~> ~IsFetching(e)

\* Every call has been issued, among them one that joined a fetch and one
\* that started a background fetch; every fetch has settled, one of them
\* with an error; every call has completed and no handle is populated.
C39_Witness ==
    /\ nCalls = MaxCalls
    /\ \A c \in Issued : Completed(c) /\ fetchState[c] # "pending"
    /\ \A e \in Ids : ~IsFetching(e)
    /\ \E c \in Issued : Joined(c)
    /\ \E c \in Issued : calls[c].did = "background"
    /\ \E c \in Issued : fetchState[c] = "rejected"

(***************************************************************************)
(* C40.  In the variant src/index.ts, once delete(key) or clear() has      *)
(* returned, key stays out of keys() and isCached(key) stays false until a *)
(* cacheable call for key that was issued after the deletion completes: a  *)
(* first fetch for key that was pending at the deletion does not create    *)
(* the entry again.                                                        *)
(***************************************************************************)
C40_ReappearStep ==
    \A k \in Keys :
        (k \notin IndexKeys /\ (k \in IndexKeys' \/ IndexIsCached(k, NoMaxAge)')) =>
            \E t \in Ids :
                /\ IndexSettle(t, TRUE)
                /\ touches[t].key = k
                /\ t \notin orphaned

C40_AbsentUntilNewCall == [][C40_ReappearStep]_vars
====
